---------------------------- MODULE Spec2Model ----------------------------
(***************************************************************************)
(* IoTDeviceManager of src/iot-service/device_manager.py: the in-memory    *)
(* device registry fed by MQTT messages, the per-topic callback registry   *)
(* and the commands published back to the broker.                          *)
(*                                                                         *)
(* Representation.                                                         *)
(*   - A topic is the sequence of its '/'-separated segments, so that      *)
(*     "smarthome/devices/d1/state" is <<"smarthome","devices","d1",       *)
(*     "state">>.                                                          *)
(*   - A Python dict is a function whose domain is its key set.            *)
(*   - Python scalars are written by their repr: "None", "True", "False",  *)
(*     "42"; a JSON string is itself.                                      *)
(*   - A JSON document is [isdict, items]: a JSON object with its items,   *)
(*     or some other JSON value (a number, say), which has no items.       *)
(*   - A raw MQTT payload is [wellformed, value]: bytes that decode and    *)
(*     parse to value, or bytes that do not.                               *)
(*   - datetime.now() is an input: the wall clock is not under the         *)
(*     program's control.                                                  *)
(***************************************************************************)
EXTENDS Naturals, Sequences, FiniteSets, Bags, TLC

VARIABLES
    devices,      \* self.devices: device_id -> record (a dict)
    callbacks,    \* self.callbacks: topic -> sequence of callbacks
    subscribed,   \* bag of the topics passed to client.subscribe
    published,    \* sequence of the (topic, payload) passed to client.publish
    session,      \* the MQTT client: "new", "connecting", "connected", "closed"
    invoked,      \* output of the latest step: the callback invocations _on_message made
    error,        \* output of the latest step: the exception _on_message caught and logged
    ret,          \* output of the latest step: what a public call returned or raised
    view,         \* output of the latest step: the dict get_devices returned
    firstSeen,    \* history: device_id -> items of the first discovery payload naming it
    lost,         \* history: ids whose state or status message found no record (see LostAfter)
    caller,       \* the caller's thread inside a public operation: its position and locals
    inbound       \* the network-loop thread inside _on_message: its position and locals

vars == <<devices, callbacks, subscribed, published, session, invoked, error, ret, view,
          firstSeen, lost, caller, inbound>>

\* the two threads, which an operation taken as one step leaves where they are
threads == <<caller, inbound>>

---------------------------------------------------------------------------
(* Bounds of the model *)

\* connect() calls the model follows (each successful one re-issues the base subscriptions)
MaxConnects == 1
\* total callback registrations the model follows
MaxCallbacks == 2
\* publishes the model follows
MaxPublished == 1

---------------------------------------------------------------------------
(* Python values *)

None == "None"
PyTrue == "True"
PyFalse == "False"

EmptyDict == [k \in {} |-> None]

\* bool(v) for the scalars of the model
Truthy(v) == v \notin {None, "", "0", PyFalse}

\* d.get(k, default)
dict_get(d, k, default) == IF k \in DOMAIN d THEN d[k] ELSE default

\* d.update(other), as the resulting dict
dict_update(d, other) ==
    [k \in DOMAIN d \cup DOMAIN other |-> IF k \in DOMAIN other THEN other[k] ELSE d[k]]

\* d[k] = v, as the resulting dict
dict_set(d, k, v) ==
    [x \in DOMAIN d \cup {k} |-> IF x = k THEN v ELSE d[x]]

---------------------------------------------------------------------------
(* Topics *)

\* topic.startswith("smarthome/discovery/")
IsDiscoveryTopic(topic) ==
    /\ Len(topic) >= 3
    /\ topic[1] = "smarthome"
    /\ topic[2] = "discovery"

\* topic.endswith("/" + word)
EndsWith(topic, word) ==
    /\ Len(topic) >= 2
    /\ topic[Len(topic)] = word

\* f"smarthome/devices/{device_id}/#"
DeviceWildcard(device_id) == <<"smarthome", "devices", device_id, "#">>

\* f"smarthome/devices/{device_id}/command"
CommandTopic(device_id) == <<"smarthome", "devices", device_id, "command">>

\* the three subscriptions of _on_connect
BaseSubscriptions ==
    { <<"smarthome", "devices", "+", "status">>,
      <<"smarthome", "devices", "+", "state">>,
      <<"smarthome", "discovery", "#">> }


---------------------------------------------------------------------------
(* The built-in handlers.  Each is the handler as a function of the        *)
(* registry it finds: the registry it leaves, the subscriptions it issues  *)
(* and the exception it raises ("" if none).                               *)

Handled(devs, subs, exc) == [devices |-> devs, subscribe |-> subs, raised |-> exc]

\* the record _handle_device_discovery stores
NewDeviceRecord(device_id, items, now) ==
    [ id               |-> device_id,
      type             |-> dict_get(items, "type", None),
      name             |-> dict_get(items, "name", None),
      capabilities     |-> dict_get(items, "capabilities", <<>>),
      manufacturer     |-> dict_get(items, "manufacturer", None),
      model            |-> dict_get(items, "model", None),
      firmware_version |-> dict_get(items, "firmware_version", None),
      discovered_at    |-> now,
      online           |-> PyTrue,
      state            |-> EmptyDict ]

\* a discovery handler that adds the capabilities announced again to those of a
\* known device
_handle_device_discovery_extend(devs, payload, now) ==
    IF ~payload.isdict
    THEN Handled(devs, EmptyBag, "AttributeError")
    ELSE LET device_id == dict_get(payload.items, "device_id", None)
         IN  IF Truthy(device_id) /\ device_id \notin DOMAIN devs
             THEN Handled(dict_set(devs, device_id,
                                   NewDeviceRecord(device_id, payload.items, now)),
                          SetToBag({DeviceWildcard(device_id)}), "")
             ELSE IF Truthy(device_id)
             THEN Handled(dict_set(devs, device_id,
                            dict_set(devs[device_id], "capabilities",
                                devs[device_id]["capabilities"]
                                    \o dict_get(payload.items, "capabilities", <<>>))),
                          EmptyBag, "")
             ELSE Handled(devs, EmptyBag, "")

\* a discovery handler that forgets the "not in self.devices" test
_handle_device_discovery_again(devs, payload, now) ==
    IF ~payload.isdict
    THEN Handled(devs, EmptyBag, "AttributeError")
    ELSE LET device_id == dict_get(payload.items, "device_id", None)
         IN  IF Truthy(device_id)
             THEN Handled(dict_set(devs, device_id,
                                   NewDeviceRecord(device_id, payload.items, now)),
                          SetToBag({DeviceWildcard(device_id)}), "")
             ELSE Handled(devs, EmptyBag, "")

\* a discovery handler that forgets the subscription
_handle_device_discovery_nosub(devs, payload, now) ==
    IF ~payload.isdict
    THEN Handled(devs, EmptyBag, "AttributeError")
    ELSE LET device_id == dict_get(payload.items, "device_id", None)
         IN  IF Truthy(device_id) /\ device_id \notin DOMAIN devs
             THEN Handled(dict_set(devs, device_id,
                                   NewDeviceRecord(device_id, payload.items, now)),
                          EmptyBag, "")
             ELSE Handled(devs, EmptyBag, "")

\* _handle_device_discovery(topic, payload); payload.get on a non-dict raises
_handle_device_discovery(devs, payload, now) ==
    IF ~payload.isdict
    THEN Handled(devs, EmptyBag, "AttributeError")
    ELSE LET device_id == dict_get(payload.items, "device_id", None)
         IN  IF Truthy(device_id) /\ device_id \notin DOMAIN devs
             THEN Handled(dict_set(devs, device_id,
                                   NewDeviceRecord(device_id, payload.items, now)),
                          SetToBag({DeviceWildcard(device_id)}), "")
             ELSE Handled(devs, EmptyBag, "")

\* a state handler that creates the record of a device it does not know
_handle_device_state_update_upsert(devs, device_id, payload, now) ==
    IF ~payload.isdict
    THEN Handled(devs, EmptyBag, "TypeError")
    ELSE LET old == IF device_id \in DOMAIN devs THEN devs[device_id]
                    ELSE [id |-> device_id, online |-> PyTrue, state |-> EmptyDict]
         IN  Handled(
               dict_set(devs, device_id,
                 dict_set(dict_set(old, "state", dict_update(old["state"], payload.items)),
                          "last_update", now)),
               EmptyBag, "")

\* a state handler that also marks the device online
_handle_device_state_update_online(devs, device_id, payload, now) ==
    IF device_id \notin DOMAIN devs
    THEN Handled(devs, EmptyBag, "")
    ELSE IF ~payload.isdict
    THEN Handled(devs, EmptyBag, "TypeError")
    ELSE Handled(
           dict_set(devs, device_id,
             dict_set(dict_set(dict_set(devs[device_id], "state",
                               dict_update(devs[device_id]["state"], payload.items)),
                      "last_update", now), "online", PyTrue)),
           EmptyBag, "")

\* a state handler that replaces the state instead of merging into it
_handle_device_state_update_replace(devs, device_id, payload, now) ==
    IF device_id \notin DOMAIN devs
    THEN Handled(devs, EmptyBag, "")
    ELSE IF ~payload.isdict
    THEN Handled(devs, EmptyBag, "TypeError")
    ELSE Handled(
           dict_set(devs, device_id,
             dict_set(dict_set(devs[device_id], "state", payload.items),
                      "last_update", now)),
           EmptyBag, "")

\* _handle_device_state_update(device_id, payload); dict.update(non-iterable) raises
\* before anything is stored
_handle_device_state_update(devs, device_id, payload, now) ==
    IF device_id \notin DOMAIN devs
    THEN Handled(devs, EmptyBag, "")
    ELSE IF ~payload.isdict
    THEN Handled(devs, EmptyBag, "TypeError")
    ELSE Handled(
           dict_set(devs, device_id,
             dict_set(dict_set(devs[device_id], "state",
                               dict_update(devs[device_id]["state"], payload.items)),
                      "last_update", now)),
           EmptyBag, "")

\* a status handler that keeps the stored value of an absent key
_handle_device_status_merge(devs, device_id, payload) ==
    IF device_id \notin DOMAIN devs
    THEN Handled(devs, EmptyBag, "")
    ELSE IF ~payload.isdict
    THEN Handled(devs, EmptyBag, "AttributeError")
    ELSE LET old == devs[device_id]
             keep(k, default) == dict_get(payload.items, k, dict_get(old, k, default))
         IN  Handled(
               dict_set(devs, device_id,
                 dict_set(dict_set(dict_set(old,
                   "online", keep("online", PyFalse)),
                   "battery", keep("battery", None)),
                   "signal_strength", keep("signal_strength", None))),
               EmptyBag, "")

\* _handle_device_status(device_id, payload); payload.get on a non-dict raises
\* before the first assignment
_handle_device_status(devs, device_id, payload) ==
    IF device_id \notin DOMAIN devs
    THEN Handled(devs, EmptyBag, "")
    ELSE IF ~payload.isdict
    THEN Handled(devs, EmptyBag, "AttributeError")
    ELSE Handled(
           dict_set(devs, device_id,
             dict_set(dict_set(dict_set(devs[device_id],
               "online", dict_get(payload.items, "online", PyFalse)),
               "battery", dict_get(payload.items, "battery", None)),
               "signal_strength", dict_get(payload.items, "signal_strength", None))),
           EmptyBag, "")

---------------------------------------------------------------------------
(* _on_message *)

\* json.loads(msg.payload.decode()): the document, or an exception
json_loads(raw) ==
    IF raw.wellformed
    THEN [ok |-> TRUE, value |-> raw.value]
    ELSE [ok |-> FALSE, value |-> [isdict |-> FALSE, items |-> EmptyDict]]

\* callbacks whose body raises
RaisingCallbacks == {"cb_raise"}

\* one call callback(topic, payload)
Invocation(callback, topic, payload) ==
    [callback |-> callback, topic |-> topic, payload |-> payload]

\* the callback loop of _on_message over the sequence cbs: the calls made, up to and
\* including the first one that raises
RECURSIVE run_callbacks(_, _, _)
run_callbacks(cbs, topic, payload) ==
    IF cbs = <<>>
    THEN [invoked |-> <<>>, raised |-> ""]
    ELSE IF Head(cbs) \in RaisingCallbacks
    THEN [invoked |-> <<Invocation(Head(cbs), topic, payload)>>, raised |-> "CallbackError"]
    ELSE LET rest == run_callbacks(Tail(cbs), topic, payload)
         IN  [invoked |-> <<Invocation(Head(cbs), topic, payload)>> \o rest.invoked,
              raised  |-> rest.raised]

\* an if/elif chain that tests the two suffixes before the discovery prefix
classify_suffix_first(devs, topic, payload, now) ==
    IF EndsWith(topic, "state")
    THEN IF Len(topic) < 3
         THEN Handled(devs, EmptyBag, "IndexError")
         ELSE _handle_device_state_update(devs, topic[3], payload, now)
    ELSE IF EndsWith(topic, "status")
    THEN IF Len(topic) < 3
         THEN Handled(devs, EmptyBag, "IndexError")
         ELSE _handle_device_status(devs, topic[3], payload)
    ELSE IF IsDiscoveryTopic(topic)
    THEN _handle_device_discovery(devs, payload, now)
    ELSE Handled(devs, EmptyBag, "")

\* the if/elif chain of _on_message; topic.split('/')[2] raises IndexError on a
\* topic of fewer than three segments
classify(devs, topic, payload, now) ==
    IF IsDiscoveryTopic(topic)
    THEN _handle_device_discovery(devs, payload, now)
    ELSE IF EndsWith(topic, "state")
    THEN IF Len(topic) < 3
         THEN Handled(devs, EmptyBag, "IndexError")
         ELSE _handle_device_state_update(devs, topic[3], payload, now)
    ELSE IF EndsWith(topic, "status")
    THEN IF Len(topic) < 3
         THEN Handled(devs, EmptyBag, "IndexError")
         ELSE _handle_device_status(devs, topic[3], payload)
    ELSE Handled(devs, EmptyBag, "")

Processed(devs, subs, calls, exc) ==
    [devices |-> devs, subscribe |-> subs, invoked |-> calls, raised |-> exc]

\* an _on_message that lets a malformed payload through as an empty object
on_message_result_lenient(devs, cbs, topic, raw, now) ==
    LET payload == IF raw.wellformed THEN raw.value
                   ELSE [isdict |-> TRUE, items |-> EmptyDict]
        h == classify(devs, topic, payload, now)
    IN  IF h.raised # ""
        THEN Processed(h.devices, h.subscribe, <<>>, h.raised)
        ELSE IF topic \in DOMAIN cbs
        THEN LET c == run_callbacks(cbs[topic], topic, payload)
             IN  Processed(h.devices, h.subscribe, c.invoked, c.raised)
        ELSE Processed(h.devices, h.subscribe, <<>>, "")

\* the body of _on_message: every exception of the try block is
\* caught and logged, and what was done before it stays done
on_message_result(devs, cbs, topic, raw, now) ==
    LET parsed == json_loads(raw)
    IN  IF ~parsed.ok
        THEN Processed(devs, EmptyBag, <<>>, "JSONDecodeError")
        ELSE LET h == classify(devs, topic, parsed.value, now)
             IN  IF h.raised # ""
                 THEN Processed(h.devices, h.subscribe, <<>>, h.raised)
                 ELSE IF topic \in DOMAIN cbs
                 THEN LET c == run_callbacks(cbs[topic], topic, parsed.value)
                      IN  Processed(h.devices, h.subscribe, c.invoked, c.raised)
                 ELSE Processed(h.devices, h.subscribe, <<>>, "")

\* history: the first discovery document that names a device id
FirstSeenAfter(seen, topic, raw) ==
    IF /\ raw.wellformed
       /\ IsDiscoveryTopic(topic)
       /\ raw.value.isdict
       /\ Truthy(dict_get(raw.value.items, "device_id", None))
       /\ raw.value.items["device_id"] \notin DOMAIN seen
    THEN dict_set(seen, raw.value.items["device_id"], raw.value.items)
    ELSE seen

\* history: the device ids whose state or status message reached its handler
\* and found no record; an id is forgotten by the first message that finds
\* its record there
LostAfter(gone, devs, topic, raw) ==
    LET waiting == gone \ DOMAIN devs
    IN  IF /\ raw.wellformed
           /\ ~IsDiscoveryTopic(topic)
           /\ EndsWith(topic, "state") \/ EndsWith(topic, "status")
           /\ Len(topic) >= 3
           /\ topic[3] \notin DOMAIN devs
        THEN waiting \cup {topic[3]}
        ELSE waiting

\* an _on_message whose except clause does not cover the callback loop: the
\* exception of a callback leaves the handler
_on_message_uncaught(topic, raw, now) ==
    /\ session = "connected"
    /\ LET r == on_message_result(devices, callbacks, topic, raw, now)
       IN  /\ devices' = r.devices
           /\ subscribed' = subscribed (+) r.subscribe
           /\ invoked' = r.invoked
           /\ error' = (IF r.raised = "CallbackError" THEN "" ELSE r.raised)
           /\ ret' = (IF r.raised = "CallbackError" THEN r.raised ELSE "")
    /\ firstSeen' = FirstSeenAfter(firstSeen, topic, raw)
    /\ lost' = LostAfter(lost, devices, topic, raw)
    /\ view' = EmptyDict
    /\ UNCHANGED <<callbacks, published, session, threads>>

\* the transport delivers a message: _on_message(client, userdata, msg)
_on_message(topic, raw, now) ==
    /\ session = "connected"
    /\ LET r == on_message_result(devices, callbacks, topic, raw, now)
       IN  /\ devices' = r.devices
           /\ subscribed' = subscribed (+) r.subscribe
           /\ invoked' = r.invoked
           /\ error' = r.raised
    /\ firstSeen' = FirstSeenAfter(firstSeen, topic, raw)
    /\ lost' = LostAfter(lost, devices, topic, raw)
    \* the except clause ends the handler normally: nothing is raised to the transport
    /\ ret' = "" /\ view' = EmptyDict
    /\ UNCHANGED <<callbacks, published, session, threads>>

---------------------------------------------------------------------------
(* Connection *)

\* a step that is not _on_message invokes no callback and logs no exception
NoHandlerOutput == invoked' = <<>> /\ error' = ""

\* connect(): client.connect raises and the exception is re-raised, or the
\* network loop is started
connect(reachable) ==
    /\ CopiesIn(<<"smarthome", "discovery", "#">>, subscribed) < MaxConnects
    /\ IF reachable
       THEN session' = "connecting" /\ ret' = None
       ELSE session' = session /\ ret' = "ConnectionError"
    /\ NoHandlerOutput /\ view' = EmptyDict
    /\ UNCHANGED <<devices, callbacks, subscribed, published, firstSeen, lost, threads>>

\* _on_connect(client, userdata, flags, rc)
_on_connect(rc) ==
    /\ session = "connecting"
    /\ IF rc = 0
       THEN /\ subscribed' = subscribed (+) SetToBag(BaseSubscriptions)
            /\ session' = "connected"
       ELSE /\ subscribed' = subscribed
            /\ session' = "closed"
    /\ NoHandlerOutput /\ ret' = "" /\ view' = EmptyDict
    /\ UNCHANGED <<devices, callbacks, published, firstSeen, lost, threads>>

\* a disconnect that also drops the registry
disconnect_and_forget ==
    /\ session' = "closed"
    /\ ret' = None
    /\ devices' = EmptyDict
    /\ NoHandlerOutput /\ view' = EmptyDict
    /\ UNCHANGED <<callbacks, subscribed, published, firstSeen, lost, threads>>

\* disconnect(): the loop is stopped and the session closed; nothing else
disconnect ==
    /\ session' = "closed"
    /\ ret' = None
    /\ NoHandlerOutput /\ view' = EmptyDict
    /\ UNCHANGED <<devices, callbacks, subscribed, published, firstSeen, lost, threads>>

---------------------------------------------------------------------------
(* Public operations *)

\* a get_devices that filters on the name instead of the type
get_devices_by_name(devs, device_type) ==
    IF Truthy(device_type)
    THEN [k \in {d \in DOMAIN devs : devs[d]["name"] = device_type} |-> devs[k]]
    ELSE devs

\* get_devices(device_type): "if device_type:" is a truth test
get_devices(devs, device_type) ==
    IF Truthy(device_type)
    THEN [k \in {d \in DOMAIN devs : devs[d]["type"] = device_type} |-> devs[k]]
    ELSE devs

\* a call of get_devices
get_devices_call(device_type) ==
    /\ view' = get_devices(devices, device_type)
    /\ ret' = "dict"
    /\ NoHandlerOutput
    /\ UNCHANGED <<devices, callbacks, subscribed, published, session, firstSeen, lost, threads>>

\* json.dumps(payload): the text of the document
json_dumps(document) == [json |-> document]

\* the command envelope of control_device; "params or {}"
CommandEnvelope(command, params, now) ==
    [ command   |-> command,
      params    |-> IF params.given /\ params.value # EmptyDict THEN params.value ELSE EmptyDict,
      timestamp |-> now ]

\* a control_device without the membership test
control_device_unchecked(device_id, command, params, now) ==
    /\ Len(published) < MaxPublished
    /\ published' = Append(published,
            [ topic   |-> CommandTopic(device_id),
              payload |-> json_dumps(CommandEnvelope(command, params, now)) ])
    /\ ret' = PyTrue
    /\ NoHandlerOutput /\ view' = EmptyDict
    /\ UNCHANGED <<devices, callbacks, subscribed, session, firstSeen, lost, threads>>

\* control_device(device_id, command, params)
control_device(device_id, command, params, now) ==
    /\ IF device_id \notin DOMAIN devices
       THEN /\ ret' = "ValueError"
            /\ published' = published
       ELSE /\ Len(published) < MaxPublished
            /\ published' = Append(published,
                    [ topic   |-> CommandTopic(device_id),
                      payload |-> json_dumps(CommandEnvelope(command, params, now)) ])
            /\ ret' = PyTrue
    /\ NoHandlerOutput /\ view' = EmptyDict
    /\ UNCHANGED <<devices, callbacks, subscribed, session, firstSeen, lost, threads>>

\* arguments of control_device: params is optional
NoParams == [given |-> FALSE, value |-> EmptyDict]
Params(value) == [given |-> TRUE, value |-> value]

\* turn_on(device_id)
turn_on(device_id, now) == control_device(device_id, "turn_on", NoParams, now)

\* turn_off(device_id)
turn_off(device_id, now) == control_device(device_id, "turn_off", NoParams, now)

\* set_brightness(device_id, brightness): no range check
set_brightness(device_id, brightness, now) ==
    control_device(device_id, "set_brightness", Params("brightness" :> brightness), now)

\* set_color(device_id, color)
set_color(device_id, color, now) ==
    control_device(device_id, "set_color", Params("color" :> color), now)

\* set_temperature(device_id, temperature)
set_temperature(device_id, temperature, now) ==
    control_device(device_id, "set_temperature", Params("temperature" :> temperature), now)

\* a lock pasted from unlock with its command left as it was
lock_as_unlock(device_id, now) == control_device(device_id, "unlock", NoParams, now)

\* lock(device_id)
lock(device_id, now) == control_device(device_id, "lock", NoParams, now)

\* unlock(device_id)
unlock(device_id, now) == control_device(device_id, "unlock", NoParams, now)

\* self.client.publish(topic, json.dumps(payload)) followed by "return True", for
\* the operations that publish whatever the registry holds
publish_and_return(topic, payload) ==
    /\ Len(published) < MaxPublished
    /\ published' = Append(published, [topic |-> topic, payload |-> json_dumps(payload)])
    /\ ret' = PyTrue
    /\ NoHandlerOutput /\ view' = EmptyDict
    /\ UNCHANGED <<devices, callbacks, subscribed, session, firstSeen, lost, threads>>

\* create_scene(scene_name, device_states)
create_scene(scene_name, device_states, now) ==
    publish_and_return(<<"smarthome", "scenes", "create">>,
        [name |-> scene_name, devices |-> device_states, created_at |-> now])

\* activate_scene(scene_name)
activate_scene(scene_name, now) ==
    publish_and_return(<<"smarthome", "scenes", "activate">>,
        [name |-> scene_name, timestamp |-> now])

\* create_automation(automation_name, trigger, conditions, actions)
create_automation(automation_name, trigger, conditions, actions, now) ==
    publish_and_return(<<"smarthome", "automations", "create">>,
        [name |-> automation_name, trigger |-> trigger, conditions |-> conditions,
         actions |-> actions, created_at |-> now])

\* a get_energy_usage that looks the device up as control_device does
get_energy_usage_checked(device_id, now) ==
    IF device_id # None /\ device_id \notin DOMAIN devices
    THEN /\ ret' = "ValueError"
         /\ NoHandlerOutput /\ view' = EmptyDict
         /\ UNCHANGED <<devices, callbacks, subscribed, published, session, firstSeen,
                        lost, threads>>
    ELSE publish_and_return(<<"smarthome", "energy", "query">>,
             [device_id |-> device_id, timestamp |-> now])

\* get_energy_usage(device_id): device_id is None when omitted
get_energy_usage(device_id, now) ==
    publish_and_return(<<"smarthome", "energy", "query">>,
        [device_id |-> device_id, timestamp |-> now])

\* number of registrations in the callback registry
RECURSIVE Registrations(_)
Registrations(cbs) ==
    IF DOMAIN cbs = {} THEN 0
    ELSE LET t == CHOOSE x \in DOMAIN cbs : TRUE
         IN  Len(cbs[t]) + Registrations([x \in DOMAIN cbs \ {t} |-> cbs[x]])

\* a subscribe_to_topic that asks the transport on every registration
subscribe_to_topic_every_time(topic, callback) ==
    /\ Registrations(callbacks) < MaxCallbacks
    /\ callbacks' = dict_set(callbacks, topic,
                             (IF topic \in DOMAIN callbacks THEN callbacks[topic] ELSE <<>>)
                                 \o <<callback>>)
    /\ subscribed' = subscribed (+) SetToBag({topic})
    /\ ret' = None
    /\ NoHandlerOutput /\ view' = EmptyDict
    /\ UNCHANGED <<devices, published, session, firstSeen, lost, threads>>

\* subscribe_to_topic(topic, callback)
subscribe_to_topic(topic, callback) ==
    /\ Registrations(callbacks) < MaxCallbacks
    /\ IF topic \notin DOMAIN callbacks
       THEN /\ callbacks' = dict_set(callbacks, topic, <<callback>>)
            /\ subscribed' = subscribed (+) SetToBag({topic})
       ELSE /\ callbacks' = dict_set(callbacks, topic, Append(callbacks[topic], callback))
            /\ subscribed' = subscribed
    /\ ret' = None
    /\ NoHandlerOutput /\ view' = EmptyDict
    /\ UNCHANGED <<devices, published, session, firstSeen, lost, threads>>

---------------------------------------------------------------------------
(* The network-loop thread, statement by statement.  loop_start() of line  *)
(* 32 starts the thread that calls _on_message, while the public           *)
(* operations run on the thread of their caller; no lock is taken on       *)
(* either side.  A thread switch can fall between any two statements.      *)

\* the network-loop thread between two messages
InboundIdle ==
    [ pc |-> "idle", topic |-> <<>>, payload |-> [isdict |-> FALSE, items |-> EmptyDict],
      device_id |-> "", now |-> "" ]

\* the handler goes on at line pc for device_id
HandlerAt(pc, topic, payload, device_id, now) ==
    /\ inbound' = [ pc |-> pc, topic |-> topic, payload |-> payload,
                    device_id |-> device_id, now |-> now ]
    /\ invoked' = <<>> /\ error' = ""

\* an exception reaches the except clause of lines 87-88
Caught(exc) ==
    /\ inbound' = InboundIdle
    /\ invoked' = <<>> /\ error' = exc

\* lines 83-88: the callbacks of the topic, and the end of _on_message
CallbacksThenReturn(topic, payload) ==
    /\ inbound' = InboundIdle
    /\ LET c == run_callbacks(IF topic \in DOMAIN callbacks THEN callbacks[topic] ELSE <<>>,
                              topic, payload)
       IN  invoked' = c.invoked /\ error' = c.raised

\* lines 62-80 and the handler chosen, up to its test of self.devices (lines
\* 96, 117, 124)
_on_message_start(topic, raw, now) ==
    /\ session = "connected"
    /\ inbound.pc = "idle"
    /\ LET parsed == json_loads(raw)
           payload == parsed.value
       IN  IF ~parsed.ok THEN Caught("JSONDecodeError")
           ELSE IF IsDiscoveryTopic(topic)
           THEN IF ~payload.isdict THEN Caught("AttributeError")
                ELSE LET device_id == dict_get(payload.items, "device_id", None)
                     IN  IF Truthy(device_id) /\ device_id \notin DOMAIN devices
                         THEN HandlerAt("L97", topic, payload, device_id, now)
                         ELSE CallbacksThenReturn(topic, payload)
           ELSE IF EndsWith(topic, "state") \/ EndsWith(topic, "status")
           THEN IF Len(topic) < 3 THEN Caught("IndexError")
                ELSE IF topic[3] \in DOMAIN devices
                THEN HandlerAt(IF EndsWith(topic, "state") THEN "L118" ELSE "L125",
                               topic, payload, topic[3], now)
                ELSE CallbacksThenReturn(topic, payload)
           ELSE CallbacksThenReturn(topic, payload)
    /\ firstSeen' = FirstSeenAfter(firstSeen, topic, raw)
    /\ lost' = LostAfter(lost, devices, topic, raw)
    /\ UNCHANGED <<devices, callbacks, subscribed, published, session, ret, view, caller>>

\* what a step of a handler leaves alone
HandlerFrame == UNCHANGED <<callbacks, published, session, ret, view, firstSeen, lost, caller>>

\* the next statement of the handler
NextLine(pc) ==
    /\ inbound' = [inbound EXCEPT !.pc = pc]
    /\ UNCHANGED <<invoked, error>>

\* the record of the handler's device with key set to value
RecordWith(key, value) ==
    dict_set(devices, inbound.device_id, dict_set(devices[inbound.device_id], key, value))

\* _handle_device_discovery after its test: the assignment of lines 97-108,
\* then the subscribe of line 113
discovery_step ==
    /\ inbound.pc \in {"L97", "L113"}
    /\ IF inbound.pc = "L97"
       THEN /\ devices' = dict_set(devices, inbound.device_id,
                               NewDeviceRecord(inbound.device_id, inbound.payload.items,
                                               inbound.now))
            /\ subscribed' = subscribed
            /\ NextLine("L113")
       ELSE /\ subscribed' = subscribed (+) SetToBag({DeviceWildcard(inbound.device_id)})
            /\ devices' = devices
            /\ CallbacksThenReturn(inbound.topic, inbound.payload)
    /\ HandlerFrame

\* _handle_device_state_update after its test: lines 118 and 119
state_update_step ==
    /\ inbound.pc \in {"L118", "L119"}
    /\ subscribed' = subscribed
    /\ IF inbound.pc = "L118"
       THEN IF ~inbound.payload.isdict
            THEN devices' = devices /\ Caught("TypeError")
            ELSE /\ devices' = RecordWith("state",
                                   dict_update(devices[inbound.device_id]["state"],
                                               inbound.payload.items))
                 /\ NextLine("L119")
       ELSE /\ devices' = RecordWith("last_update", inbound.now)
            /\ CallbacksThenReturn(inbound.topic, inbound.payload)
    /\ HandlerFrame

\* a status handler that drops the record of a device reported offline
status_step_evict ==
    /\ inbound.pc \in {"L125", "L126", "L127"}
    /\ subscribed' = subscribed
    /\ IF ~inbound.payload.isdict
       THEN devices' = devices /\ Caught("AttributeError")
       ELSE /\ devices' = IF dict_get(inbound.payload.items, "online", PyFalse) = PyFalse
                          THEN [d \in DOMAIN devices \ {inbound.device_id} |-> devices[d]]
                          ELSE devices
            /\ CallbacksThenReturn(inbound.topic, inbound.payload)
    /\ HandlerFrame

\* _handle_device_status after its test: lines 125, 126 and 127
status_step ==
    /\ inbound.pc \in {"L125", "L126", "L127"}
    /\ subscribed' = subscribed
    /\ IF inbound.pc = "L125"
       THEN IF ~inbound.payload.isdict
            THEN devices' = devices /\ Caught("AttributeError")
            ELSE /\ devices' = RecordWith("online",
                                   dict_get(inbound.payload.items, "online", PyFalse))
                 /\ NextLine("L126")
       ELSE IF inbound.pc = "L126"
       THEN /\ devices' = RecordWith("battery", dict_get(inbound.payload.items, "battery", None))
            /\ NextLine("L127")
       ELSE /\ devices' = RecordWith("signal_strength",
                              dict_get(inbound.payload.items, "signal_strength", None))
            /\ CallbacksThenReturn(inbound.topic, inbound.payload)
    /\ HandlerFrame

---------------------------------------------------------------------------
(* The caller's thread, statement by statement: get_device, get_devices,   *)
(* control_device and the scenes of SmartHomeAutomation.                   *)

\* publishes the caller's thread makes in the model of the two threads
MaxThreadPublished == 2

\* the caller's thread outside every call: pc is the line it is at, filter,
\* size, visited and result belong to the comprehension of line 133, scene,
\* filters (the get_devices calls still to make), matched (those made) and
\* queue (the commands still to send) to a scene, sending to control_device
\* between its test and its publish, issued is what the call has published
CallerIdle ==
    [ pc |-> "idle", scene |-> "", filters |-> <<>>, filter |-> None, size |-> 0,
      visited |-> {}, result |-> <<>>, matched |-> <<>>, queue |-> <<>>,
      sending |-> <<>>, issued |-> <<>> ]

\* what a step of the caller's thread leaves alone
CallerFrame ==
    UNCHANGED <<devices, callbacks, subscribed, session, invoked, error, firstSeen, lost,
                inbound>>

\* get_device(device_id): one dict.get
get_device_called(device_id) ==
    /\ caller.pc = "idle"
    /\ caller' = CallerIdle
    /\ IF device_id \in DOMAIN devices
       THEN ret' = "record" /\ view' = devices[device_id]
       ELSE ret' = None /\ view' = EmptyDict
    /\ published' = published
    /\ CallerFrame

\* the comprehension of line 133 starts: the iterator over self.devices.items()
\* notes the size of the dict
Iterating(frame, device_type) ==
    [frame EXCEPT !.pc = "L133", !.filter = device_type,
                  !.size = Cardinality(DOMAIN devices), !.visited = {}, !.result = <<>>]

\* get_devices(device_type) is called: without a filter it returns self.devices
\* itself, with one it starts the comprehension
get_devices_called(device_type) ==
    /\ caller.pc = "idle"
    /\ IF Truthy(device_type)
       THEN /\ caller' = Iterating(CallerIdle, device_type)
            /\ ret' = "" /\ view' = EmptyDict
       ELSE /\ caller' = CallerIdle
            /\ ret' = "dict" /\ view' = devices
    /\ published' = published
    /\ CallerFrame

\* the get_devices calls of a scene, in the order of lines 277-278, 293-295, 313-315
SceneFilters(scene) ==
    IF scene = "good_morning_scene" THEN <<"light", "thermostat">>
    ELSE <<"light", "lock", "thermostat">>

\* the ids a scene got for a type
RECURSIVE IdsOf(_, _)
IdsOf(matched, device_type) ==
    IF matched = <<>> THEN <<>>
    ELSE IF Head(matched).filter = device_type THEN Head(matched).ids
    ELSE IdsOf(Tail(matched), device_type)

Command(device_id, command, params) ==
    [device_id |-> device_id, command |-> command, params |-> params]

\* "for device_id in ids:" around the calls made for one device
RECURSIVE ForEach(_, _)
ForEach(ids, calls) ==
    IF ids = <<>> THEN <<>>
    ELSE [i \in 1..Len(calls) |-> Command(Head(ids), calls[i].command, calls[i].params)]
             \o ForEach(Tail(ids), calls)

\* the loops of a scene over what get_devices returned (lines 281-287, 298-307,
\* 318-327)
SceneCommands(scene, matched) ==
    LET call(command, params) == [command |-> command, params |-> params]
        temperature(t) == call("set_temperature", Params("temperature" :> t))
    IN  IF scene = "good_morning_scene"
        THEN ForEach(IdsOf(matched, "light"),
                     << call("turn_on", NoParams),
                        call("set_brightness", Params("brightness" :> "50")) >>)
             \o ForEach(IdsOf(matched, "thermostat"), << temperature("22") >>)
        ELSE ForEach(IdsOf(matched, "light"), << call("turn_off", NoParams) >>)
             \o ForEach(IdsOf(matched, "lock"), << call("lock", NoParams) >>)
             \o ForEach(IdsOf(matched, "thermostat"),
                        << temperature(IF scene = "good_night_scene" THEN "18" ELSE "15") >>)

\* good_morning_scene(), good_night_scene() or away_mode() is called: its first
\* get_devices('light') starts
scene_called(scene) ==
    /\ caller.pc = "idle"
    /\ caller' = Iterating([CallerIdle EXCEPT !.scene = scene,
                                              !.filters = Tail(SceneFilters(scene))],
                           Head(SceneFilters(scene)))
    /\ ret' = "" /\ view' = EmptyDict
    /\ published' = published
    /\ CallerFrame

\* the elements of a sequence
Elements(seq) == { seq[i] : i \in 1..Len(seq) }

\* what control_device holds between its test and its publish (lines 145-150)
Sending(device_id, command, params, now) ==
    [ device_id |-> device_id,
      topic     |-> CommandTopic(device_id),
      payload   |-> json_dumps(CommandEnvelope(command, params, now)) ]

\* one next() of the comprehension of line 133: the iterator raises RuntimeError
\* ("dictionary changed size during iteration") when the dict no longer has the
\* size noted, yields an item not yet seen, or is exhausted and get_devices
\* returns; the exception is caught by nobody and ends the scene too
get_devices_next ==
    /\ caller.pc = "L133"
    /\ IF Cardinality(DOMAIN devices) # caller.size
       THEN /\ caller' = [caller EXCEPT !.pc = "idle"]
            /\ ret' = "RuntimeError" /\ view' = view
       ELSE IF DOMAIN devices \ caller.visited # {}
       THEN /\ \E k \in DOMAIN devices \ caller.visited :
                  caller' = [caller EXCEPT
                               !.visited = @ \cup {k},
                               !.result = IF devices[k]["type"] = caller.filter
                                          THEN Append(@, k) ELSE @]
            /\ UNCHANGED <<ret, view>>
       ELSE IF caller.scene = ""
       THEN /\ caller' = [caller EXCEPT !.pc = "idle"]
            /\ ret' = "dict"
            /\ view' = [k \in Elements(caller.result) |-> devices[k]]
       ELSE LET matched == Append(caller.matched,
                                  [filter |-> caller.filter, ids |-> caller.result])
                queue == SceneCommands(caller.scene, matched)
            IN  /\ view' = view
                /\ IF caller.filters # <<>>
                   THEN /\ caller' = [caller EXCEPT !.pc = "call", !.matched = matched]
                        /\ ret' = ret
                   ELSE IF queue # <<>>
                   THEN /\ caller' = [caller EXCEPT !.pc = "L142", !.matched = matched,
                                                     !.queue = queue]
                        /\ ret' = ret
                   ELSE /\ caller' = [caller EXCEPT !.pc = "idle", !.matched = matched]
                        /\ ret' = None
    /\ published' = published
    /\ CallerFrame

\* the next statement of a scene: its next get_devices call, or the test of
\* line 142 in the control_device call of its next command
scene_step(now) ==
    /\ caller.pc \in {"call", "L142"}
    /\ IF caller.pc = "call"
       THEN /\ caller' = Iterating([caller EXCEPT !.filters = Tail(@)], Head(caller.filters))
            /\ ret' = ret
       ELSE LET c == Head(caller.queue)
            IN  IF c.device_id \notin DOMAIN devices
                THEN /\ caller' = [caller EXCEPT !.pc = "idle"]
                     /\ ret' = "ValueError"
                ELSE /\ caller' = [caller EXCEPT
                                     !.pc = "L152",
                                     !.queue = Tail(@),
                                     !.sending = <<Sending(c.device_id, c.command,
                                                           c.params, now)>>]
                     /\ ret' = ret
    /\ UNCHANGED <<published, view>>
    /\ CallerFrame

\* control_device(device_id, command, params) is called: the test of line 142
\* and the envelope of lines 145-150
control_device_called(device_id, command, params, now) ==
    /\ caller.pc = "idle"
    /\ IF device_id \notin DOMAIN devices
       THEN /\ caller' = CallerIdle
            /\ ret' = "ValueError"
       ELSE /\ caller' = [CallerIdle EXCEPT
                             !.pc = "L152",
                             !.sending = <<Sending(device_id, command, params, now)>>]
            /\ ret' = ""
    /\ view' = EmptyDict
    /\ published' = published
    /\ CallerFrame

\* the publish of line 152 and the return of line 155, to the caller or to the scene
control_device_publish ==
    /\ caller.pc = "L152"
    /\ Len(published) < MaxThreadPublished
    /\ LET sent == caller.sending[1]
       IN  /\ published' = Append(published, [topic |-> sent.topic, payload |-> sent.payload])
           /\ caller' = [caller EXCEPT
                            !.pc = IF caller.queue # <<>> THEN "L142" ELSE "idle",
                            !.sending = <<>>,
                            !.issued = Append(@, sent)]
    /\ ret' = IF caller.scene = "" THEN PyTrue
              ELSE IF caller.queue = <<>> THEN None ELSE ret
    /\ view' = view
    /\ CallerFrame

---------------------------------------------------------------------------
(* Inputs *)

DeviceIds == {"d1", "d2"}

\* values datetime.now().isoformat() takes
Times == {"t1", "t2"}

Doc(items) == [isdict |-> TRUE, items |-> items]
\* a JSON document that is not an object, such as 42
NotAnObject == [isdict |-> FALSE, items |-> EmptyDict]
Raw(value) == [wellformed |-> TRUE, value |-> value]
\* bytes that are not JSON
Garbage == [wellformed |-> FALSE, value |-> NotAnObject]

LampInfo ==
    [ type |-> "light", name |-> "Lamp", capabilities |-> <<"dim", "color">>,
      manufacturer |-> "Acme", model |-> "L1", firmware_version |-> "1.0" ]
\* a discovery document without the optional keys
DoorInfo == [ type |-> "lock", name |-> "Door" ]

\* discovery documents for ids: without device_id, with an empty one, with each of ids
DiscoveryDocs(ids, infos) ==
    { Doc(info) : info \in infos }
    \cup { Doc(("device_id" :> d) @@ info) : d \in {""} \cup ids, info \in infos }

StateDocs ==
    { Doc("on" :> PyTrue), Doc(("on" :> PyFalse) @@ ("level" :> "5")) }

StatusDocs ==
    { Doc(("online" :> PyTrue) @@ ("battery" :> "42")), Doc("signal_strength" :> "-60") }

DiscoveryTopic == <<"smarthome", "discovery", "hub">>
\* a discovery topic that also ends with "/state"
DiscoveryStateTopic == <<"smarthome", "discovery", "d1", "state">>
StateTopic(d) == <<"smarthome", "devices", d, "state">>
StatusTopic(d) == <<"smarthome", "devices", d, "status">>
\* a custom topic that ends with "/state" and has two segments
ShortStateTopic == <<"room", "state">>
\* a custom topic no built-in handler matches
CustomTopic == <<"home", "alerts">>

\* a message as it reaches _on_message, with the time the handler then reads
Arrival(topic, raw, now) == [topic |-> topic, raw |-> raw, now |-> now]

\* messages of the built-in topics: every kind for d1, at two instants where
\* the handler reads the clock; a narrower choice for d2
InboundArrivals ==
    { Arrival(DiscoveryTopic, Raw(v), now) :
          v \in DiscoveryDocs({"d1"}, {LampInfo, DoorInfo}) \cup {NotAnObject}, now \in Times }
    \cup { Arrival(DiscoveryStateTopic, Raw(v), "t1") : v \in DiscoveryDocs({"d1"}, {DoorInfo}) }
    \cup { Arrival(DiscoveryTopic, Raw(Doc(("device_id" :> "d2") @@ DoorInfo)), "t1") }
    \cup { Arrival(StateTopic("d1"), Raw(v), now) : v \in StateDocs \cup {NotAnObject}, now \in Times }
    \cup { Arrival(StateTopic("d2"), Raw(Doc("on" :> PyTrue)), "t1") }
    \cup { Arrival(StatusTopic("d1"), Raw(v), "t1") : v \in StatusDocs \cup {NotAnObject} }
    \cup { Arrival(StatusTopic("d2"), Raw(Doc("signal_strength" :> "-60")), "t1") }
    \cup { Arrival(t, Garbage, "t1") : t \in {DiscoveryTopic, StateTopic("d1"), StatusTopic("d1")} }

\* a discovery topic that also ends with "/status"
DiscoveryStatusTopic == <<"smarthome", "discovery", "d1", "status">>
\* a discovery document sent on those two topics only
GateInfo == [ type |-> "lock", name |-> "Gate", on |-> PyTrue, battery |-> "7" ]

\* messages for the classifier: topics that match one rule, two rules or none
ClassifyArrivals ==
    { Arrival(DiscoveryTopic, Raw(Doc(("device_id" :> "d1") @@ LampInfo)), "t1") }
    \cup { Arrival(t, Raw(v), "t2") :
              t \in {DiscoveryStateTopic, DiscoveryStatusTopic},
              v \in DiscoveryDocs(DeviceIds, {GateInfo}) }
    \cup { Arrival(StateTopic("d1"), Raw(v), now) : v \in StateDocs, now \in Times }
    \cup { Arrival(StatusTopic(d), Raw(v), "t1") : d \in DeviceIds, v \in StatusDocs }
    \cup { Arrival(CustomTopic, Raw(Doc("on" :> PyTrue)), "t1") }

\* topics a caller registers callbacks for: one per outcome of the classifier
CallbackTopics ==
    {DiscoveryTopic, StateTopic("d1"), StatusTopic("d1"), ShortStateTopic, CustomTopic}

Callbacks == {"cb_a"} \cup RaisingCallbacks

\* messages on the topics with callbacks
DispatchArrivals ==
    { Arrival(DiscoveryTopic, Raw(v), "t1") :
          v \in {Doc(("device_id" :> "d1") @@ DoorInfo), NotAnObject} }
    \cup { Arrival(StateTopic("d1"), r, "t1") : r \in {Raw(Doc("on" :> PyTrue)), Garbage} }
    \cup { Arrival(StatusTopic("d1"), Raw(Doc("signal_strength" :> "-60")), "t1") }
    \cup { Arrival(t, Raw(Doc(EmptyDict)), "t1") : t \in {ShortStateTopic, CustomTopic} }

\* discovery messages that fill the registry with two devices of one or two types
RegistryArrivals ==
    { Arrival(DiscoveryTopic, Raw(Doc(("device_id" :> "d1") @@ info)), "t1") :
          info \in {LampInfo, DoorInfo} }
    \cup { Arrival(DiscoveryTopic, Raw(Doc(("device_id" :> "d2") @@ DoorInfo)), "t1") }

\* arguments of control_device
Commands == {"turn_on", "set_brightness"}
ParamsArgs == {NoParams, Params(EmptyDict), Params("brightness" :> "50")}

\* arguments of the convenience operations: brightness inside and outside 0-100
Brightnesses == {"0", "50", "150"}
Colors == {"#FF5733"}
Temperatures == {"22"}

\* arguments of the scene, automation and energy operations; d9 is never discovered
SceneNames == {"evening"}
DeviceStatesArgs ==
    { EmptyDict, "d1" :> ("on" :> PyTrue), "d9" :> ("locked" :> PyTrue) }
EnergyArgs == {None, "d1", "d9"}

\* messages taken statement by statement: two discoveries, a state and a status
\* update
ThreadArrivals ==
    { Arrival(DiscoveryTopic, Raw(Doc(("device_id" :> "d1") @@ LampInfo)), "t1"),
      Arrival(DiscoveryTopic, Raw(Doc(("device_id" :> "d2") @@ DoorInfo)), "t1"),
      Arrival(StateTopic("d1"), Raw(Doc("on" :> PyTrue)), "t1"),
      Arrival(StatusTopic("d1"), Raw(Doc("signal_strength" :> "-60")), "t1") }

\* the scenes, and the discoveries that arrive while they run
Scenes == {"good_morning_scene", "good_night_scene", "away_mode"}
ThermostatInfo == [ type |-> "thermostat", name |-> "Hall" ]
SceneArrivals ==
    { Arrival(DiscoveryTopic, Raw(Doc(("device_id" :> "d1") @@ LampInfo)), "t1") }
    \cup { Arrival(DiscoveryTopic, Raw(Doc(("device_id" :> "d2") @@ info)), "t1") :
              info \in {DoorInfo, ThermostatInfo} }

\* arguments of get_devices: no filter (None), an empty one, types present and absent
TypeFilters == {None, "", "light", "lock", "thermostat"}

---------------------------------------------------------------------------
(* Specifications *)

Init ==
    /\ devices = EmptyDict
    /\ callbacks = EmptyDict
    /\ subscribed = EmptyBag
    /\ published = <<>>
    /\ session = "new"
    /\ invoked = <<>>
    /\ error = ""
    /\ ret = ""
    /\ view = EmptyDict
    /\ firstSeen = EmptyDict
    /\ lost = {}
    /\ caller = CallerIdle
    /\ inbound = InboundIdle

Connect == \E reachable \in BOOLEAN : connect(reachable)
OnConnect == \E rc \in {0, 5} : _on_connect(rc)
Disconnect == disconnect
Deliver(arrivals) == \E a \in arrivals : _on_message(a.topic, a.raw, a.now)

\* the inbound path alone: the connection and the messages of the built-in topics
InboundDeliver == Deliver(InboundArrivals)
NextInbound == Connect \/ OnConnect \/ Disconnect \/ InboundDeliver
SpecInbound == Init /\ [][NextInbound]_vars

\* the classifier: messages on topics that match one rule, two or none
ClassifyDeliver == Deliver(ClassifyArrivals)
NextClassify == Connect \/ OnConnect \/ ClassifyDeliver
SpecClassify == Init /\ [][NextClassify]_vars

Subscribe == \E t \in CallbackTopics, cb \in Callbacks : subscribe_to_topic(t, cb)
Control ==
    \E d \in DeviceIds, c \in Commands, p \in ParamsArgs : control_device(d, c, p, "t1")
GetDevices == \E f \in TypeFilters : get_devices_call(f)

\* callback registration and dispatch
DispatchDeliver == Deliver(DispatchArrivals)
NextDispatch == Connect \/ OnConnect \/ Subscribe \/ DispatchDeliver
SpecDispatch == Init /\ [][NextDispatch]_vars

\* the caller's reads and commands over a registry filled by discovery
RegistryDeliver == Deliver(RegistryArrivals)
NextCommands == Connect \/ OnConnect \/ RegistryDeliver \/ Control \/ GetDevices
SpecCommands == Init /\ [][NextCommands]_vars

\* the operations that publish, over a registry filled by discovery
TurnOn == \E d \in DeviceIds : turn_on(d, "t1")
TurnOff == \E d \in DeviceIds : turn_off(d, "t1")
SetBrightness == \E d \in DeviceIds, b \in Brightnesses : set_brightness(d, b, "t1")
SetColor == \E d \in DeviceIds, c \in Colors : set_color(d, c, "t1")
SetTemperature == \E d \in DeviceIds, t \in Temperatures : set_temperature(d, t, "t1")
Lock == \E d \in DeviceIds : lock(d, "t1")
Unlock == \E d \in DeviceIds : unlock(d, "t1")
CreateScene == \E n \in SceneNames, ds \in DeviceStatesArgs : create_scene(n, ds, "t1")
ActivateScene == \E n \in SceneNames : activate_scene(n, "t1")
CreateAutomation ==
    \E ds \in DeviceStatesArgs :
        create_automation("dusk", "sunset", <<>>, <<ds>>, "t1")
GetEnergyUsage == \E d \in EnergyArgs : get_energy_usage(d, "t1")
NextOutbound ==
    \/ Connect \/ OnConnect \/ RegistryDeliver
    \/ TurnOn \/ TurnOff \/ SetBrightness \/ SetColor \/ SetTemperature \/ Lock \/ Unlock
    \/ CreateScene \/ ActivateScene \/ CreateAutomation \/ GetEnergyUsage
SpecOutbound == Init /\ [][NextOutbound]_vars

\* the two threads: messages handled statement by statement while the caller
\* reads the registry and sends commands
Receive(arrivals) == \E a \in arrivals : _on_message_start(a.topic, a.raw, a.now)
ThreadsReceive == Receive(ThreadArrivals)
GetDevice == \E d \in DeviceIds : get_device_called(d)
GetDevicesCalled == \E f \in {None, "light"} : get_devices_called(f)
ControlCalled == \E d \in DeviceIds : control_device_called(d, "turn_on", NoParams, "t1")
NextThreads ==
    \/ Connect \/ OnConnect
    \/ ThreadsReceive \/ discovery_step \/ state_update_step \/ status_step
    \/ GetDevice \/ GetDevicesCalled \/ get_devices_next
    \/ ControlCalled \/ control_device_publish
SpecThreads == Init /\ [][NextThreads]_vars

\* the scenes of SmartHomeAutomation while devices are being discovered
ScenesReceive == Receive(SceneArrivals)
SceneCalled == \E scene \in Scenes : scene_called(scene)
SceneStep == scene_step("t1")
NextScenes ==
    \/ Connect \/ OnConnect
    \/ ScenesReceive \/ discovery_step
    \/ SceneCalled \/ get_devices_next \/ SceneStep \/ control_device_publish
SpecScenes == Init /\ [][NextScenes]_vars

\* the connection, the inbound path, callback registration, control_device and
\* get_devices together, each over a narrower choice of arguments
AnyDeliver ==
    Deliver(DispatchArrivals
            \cup { Arrival(DiscoveryTopic, Raw(Doc(("device_id" :> "d2") @@ LampInfo)), "t1") })
AnySubscribe ==
    \E t \in {StateTopic("d1"), ShortStateTopic}, cb \in Callbacks : subscribe_to_topic(t, cb)
AnyControl ==
    \E d \in DeviceIds, p \in {NoParams, Params("brightness" :> "50")} :
        control_device(d, "set_brightness", p, "t1")
AnyGetDevices == \E f \in {None, "light"} : get_devices_call(f)
Next ==
    Connect \/ OnConnect \/ Disconnect \/ AnyDeliver \/ AnySubscribe \/ AnyControl \/ AnyGetDevices
Spec == Init /\ [][Next]_vars

---------------------------------------------------------------------------
(* Vocabulary of the claims *)

\* the step is the delivery of arrival a
Delivered(a) == _on_message(a.topic, a.raw, a.now)

\* the payload of a parsed to a JSON object
ParsedObject(a) == a.raw.wellformed /\ a.raw.value.isdict

\* a is handled as a discovery, a state-update or a status event (first match)
DiscoveryEvent(a) == ParsedObject(a) /\ IsDiscoveryTopic(a.topic)
StateEvent(a) ==
    /\ ParsedObject(a)
    /\ ~IsDiscoveryTopic(a.topic)
    /\ EndsWith(a.topic, "state")
    /\ Len(a.topic) >= 3
StatusEvent(a) ==
    /\ ParsedObject(a)
    /\ ~IsDiscoveryTopic(a.topic)
    /\ ~EndsWith(a.topic, "state")
    /\ EndsWith(a.topic, "status")
    /\ Len(a.topic) >= 3

\* the device_id a discovery document carries, None when it carries none
CarriedId(a) == dict_get(a.raw.value.items, "device_id", None)

\* the keys of a device record but for the given ones
OtherKeys(record, keys) == DOMAIN record \ keys

---------------------------------------------------------------------------
(* C1 *)

\* per-device subscription requests issued so far for device id d
DeviceSubscriptions(d) == CopiesIn(DeviceWildcard(d), subscribed)

C1_OncePerDevice ==
    \A d \in DeviceIds \cup {""} :
        DeviceSubscriptions(d) = IF d \in DOMAIN devices THEN 1 ELSE 0

\* what the claim says of the delivery of a discovery event that carries id
C1_DiscoveryStep(a, id) ==
    IF id \in DOMAIN devices
    THEN devices' = devices /\ subscribed' = subscribed
    ELSE /\ DOMAIN devices' = DOMAIN devices \cup {id}
         /\ devices'[id]["id"] = id
         /\ \A d \in DOMAIN devices : devices'[d] = devices[d]
         /\ subscribed' = subscribed (+) SetToBag({DeviceWildcard(id)})

\* C1 as stated: after any sequence of inbound events, each registered device
\* id has exactly one per-device subscription request and each unregistered
\* one none; a discovery event with a device_id not yet in the registry
\* creates the record and issues one subscription, and a discovery event with
\* a registered device_id changes neither registry nor subscriptions.
C1_AnyFreshIdCreates ==
    /\ []C1_OncePerDevice
    /\ [][\A a \in InboundArrivals :
            (Delivered(a) /\ DiscoveryEvent(a) /\ CarriedId(a) # None)
                => C1_DiscoveryStep(a, CarriedId(a))]_vars

\* C1 amended: the same, for a discovery event whose device_id is not empty
\* (the handler takes an empty device_id for a missing one and does nothing).
C1_SubscribedOncePerDevice ==
    /\ []C1_OncePerDevice
    /\ [][\A a \in InboundArrivals :
            (Delivered(a) /\ DiscoveryEvent(a) /\ CarriedId(a) # None)
                => IF CarriedId(a) = ""
                   THEN devices' = devices /\ subscribed' = subscribed
                   ELSE C1_DiscoveryStep(a, CarriedId(a))]_vars

\* both devices are registered, each with its one subscription
C1_Witness ==
    /\ DOMAIN devices = DeviceIds
    /\ \A d \in DeviceIds : DeviceSubscriptions(d) = 1
    /\ DOMAIN firstSeen = DeviceIds

---------------------------------------------------------------------------
(* C2 *)

\* C2: a state-update event for a registered id merges the payload key by key
\* into the record's state (payload keys take the payload's values, the other
\* state keys keep theirs); for an unregistered id the registry is unchanged
\* and no entry is created.
C2_StateMerged ==
    [][\A a \in InboundArrivals :
         (Delivered(a) /\ StateEvent(a)) =>
            LET id == a.topic[3]
                items == a.raw.value.items
            IN  IF id \in DOMAIN devices
                THEN /\ DOMAIN devices' = DOMAIN devices
                     /\ DOMAIN devices'[id]["state"]
                            = DOMAIN devices[id]["state"] \cup DOMAIN items
                     /\ \A k \in DOMAIN items : devices'[id]["state"][k] = items[k]
                     /\ \A k \in DOMAIN devices[id]["state"] \ DOMAIN items :
                            devices'[id]["state"][k] = devices[id]["state"][k]
                ELSE devices' = devices]_vars

\* a state in which one key was overwritten by a later payload and another,
\* absent from that payload, survived it
C2_Witness ==
    /\ "d1" \in DOMAIN devices
    /\ DOMAIN devices["d1"]["state"] = {"on", "level"}
    /\ devices["d1"]["state"]["on"] = PyTrue
    /\ devices["d1"]["state"]["level"] = "5"

---------------------------------------------------------------------------
(* C3 *)

StatusKeys == {"online", "battery", "signal_strength"}

\* C3: a status event for a registered id sets online, battery and
\* signal_strength from that payload alone (False, None and None for absent
\* keys), leaves the state mapping and every other key as they were; for an
\* unregistered id it changes nothing.
C3_StatusReplaced ==
    [][\A a \in InboundArrivals :
         (Delivered(a) /\ StatusEvent(a)) =>
            LET id == a.topic[3]
                items == a.raw.value.items
            IN  IF id \in DOMAIN devices
                THEN /\ DOMAIN devices' = DOMAIN devices
                     /\ devices'[id]["online"] =
                            (IF "online" \in DOMAIN items THEN items["online"] ELSE PyFalse)
                     /\ devices'[id]["battery"] =
                            (IF "battery" \in DOMAIN items THEN items["battery"] ELSE None)
                     /\ devices'[id]["signal_strength"] =
                            (IF "signal_strength" \in DOMAIN items
                             THEN items["signal_strength"] ELSE None)
                     /\ devices'[id]["state"] = devices[id]["state"]
                     /\ DOMAIN devices'[id] = DOMAIN devices[id] \cup StatusKeys
                     /\ \A k \in OtherKeys(devices[id], StatusKeys) :
                            devices'[id][k] = devices[id][k]
                ELSE devices' = devices]_vars

\* a record with a non-empty state whose status was set by a payload without
\* battery and online
C3_Witness ==
    /\ "d1" \in DOMAIN devices
    /\ devices["d1"]["state"] # EmptyDict
    /\ "battery" \in DOMAIN devices["d1"]
    /\ devices["d1"]["online"] = PyFalse
    /\ devices["d1"]["battery"] = None
    /\ devices["d1"]["signal_strength"] = "-60"

---------------------------------------------------------------------------
(* C7 *)

\* C7: no step, inbound event or public operation, disconnect included,
\* removes a record: a registered device id stays registered.
C7_RegistryNeverShrinks ==
    [][DOMAIN devices \subseteq DOMAIN devices']_vars

\* the session was closed by disconnect and both records are still there
C7_Witness ==
    /\ session = "closed"
    /\ ret = None
    /\ DOMAIN devices = DeviceIds

---------------------------------------------------------------------------
(* C8 *)

IdentityKeys == {"type", "name", "manufacturer", "model", "firmware_version"}

\* C8: every record is stored under its own id, and its type, name,
\* capabilities, manufacturer, model and firmware_version are those of the
\* first discovery event that carried its id, whatever discovery, state or
\* status events came later.
C8_FirstDiscoveryWins ==
    /\ DOMAIN devices = DOMAIN firstSeen
    /\ \A k \in DOMAIN devices :
          /\ devices[k]["id"] = k
          /\ firstSeen[k]["device_id"] = k
          /\ \A f \in IdentityKeys :
                devices[k][f] = (IF f \in DOMAIN firstSeen[k] THEN firstSeen[k][f] ELSE None)
          /\ devices[k]["capabilities"] =
                (IF "capabilities" \in DOMAIN firstSeen[k]
                 THEN firstSeen[k]["capabilities"] ELSE <<>>)

\* d1 was discovered as the lamp and has since received state and status events
C8_Witness ==
    /\ "d1" \in DOMAIN devices
    /\ devices["d1"]["type"] = "light"
    /\ devices["d1"]["capabilities"] = <<"dim", "color">>
    /\ devices["d1"]["state"] # EmptyDict
    /\ "battery" \in DOMAIN devices["d1"]
    /\ "last_update" \in DOMAIN devices["d1"]
    /\ devices["d1"]["last_update"] # devices["d1"]["discovered_at"]

---------------------------------------------------------------------------
(* C5 *)

\* the callbacks registered for a topic, in registration order
RegisteredFor(topic) == IF topic \in DOMAIN callbacks THEN callbacks[topic] ELSE <<>>

\* one call of each of them, in that order, with (topic, payload)
RECURSIVE EachOnce(_, _, _)
EachOnce(cbs, topic, payload) ==
    IF cbs = <<>> THEN <<>>
    ELSE <<Invocation(Head(cbs), topic, payload)>> \o EachOnce(Tail(cbs), topic, payload)

\* C5: for every inbound event whose payload parses, whatever the classifier
\* and the built-in handler did, every callback registered for the exact topic
\* is invoked once per registration, in registration order, with (topic,
\* parsed payload).
C5_CallbacksAlwaysInvoked ==
    [][\A a \in DispatchArrivals :
         (Delivered(a) /\ a.raw.wellformed)
             => invoked' = EachOnce(RegisteredFor(a.topic), a.topic, a.raw.value)]_vars

---------------------------------------------------------------------------
(* C6 *)

\* C6: an inbound event whose payload does not parse is reported and dropped:
\* registry, callback registry, subscriptions, publishes and session are
\* unchanged and no callback is invoked, so that every later event is
\* processed exactly as it would have been without it.
C6_MalformedDropped ==
    [][\A a \in DispatchArrivals :
         (Delivered(a) /\ ~a.raw.wellformed) =>
            /\ devices' = devices
            /\ callbacks' = callbacks
            /\ subscribed' = subscribed
            /\ published' = published
            /\ session' = session
            /\ invoked' = <<>>
            /\ error' = "JSONDecodeError"
            /\ \A b \in DispatchArrivals :
                  on_message_result(devices', callbacks', b.topic, b.raw, b.now)
                      = on_message_result(devices, callbacks, b.topic, b.raw, b.now)]_vars

\* a malformed payload was just dropped on a topic that has a callback and
\* names a registered device
C6_Witness ==
    /\ error = "JSONDecodeError"
    /\ invoked = <<>>
    /\ "d1" \in DOMAIN devices
    /\ StateTopic("d1") \in DOMAIN callbacks
    /\ session = "connected"

---------------------------------------------------------------------------
(* C9 *)

\* the callbacks of a sequence of invocations
RECURSIVE CallbacksOf(_)
CallbacksOf(calls) ==
    IF calls = <<>> THEN <<>> ELSE <<Head(calls).callback>> \o CallbacksOf(Tail(calls))

---------------------------------------------------------------------------
(* C4 *)

\* C4: control_device for an unregistered id fails with the unknown-device
\* error (ValueError) and publishes nothing; for a registered id it makes one
\* publish, to smarthome/devices/<id>/command, that carries the command and
\* the params given (an empty mapping when none are given), and returns True.
C4_ControlDevice ==
    [][\A d \in DeviceIds, c \in Commands, p \in ParamsArgs :
         control_device(d, c, p, "t1") =>
            IF d \notin DOMAIN devices
            THEN ret' = "ValueError" /\ published' = published
            ELSE /\ ret' = PyTrue
                 /\ Len(published') = Len(published) + 1
                 /\ SubSeq(published', 1, Len(published)) = published
                 /\ LET sent == published'[Len(published')]
                    IN  /\ sent.topic = <<"smarthome", "devices", d, "command">>
                        /\ sent.payload.json.command = c
                        /\ sent.payload.json.params =
                               (IF p.given THEN p.value ELSE EmptyDict)]_vars

\* a command with params was published for d1, and a later call for the
\* unregistered d2 has just failed and published nothing
C4_Witness ==
    /\ ret = "ValueError"
    /\ "d2" \notin DOMAIN devices
    /\ Len(published) = 1
    /\ published[1].topic = <<"smarthome", "devices", "d1", "command">>
    /\ published[1].payload.json.command = "set_brightness"
    /\ published[1].payload.json.params = ("brightness" :> "50")

---------------------------------------------------------------------------
(* C10 *)

\* the records whose type field equals the filter
OfType(device_type) ==
    [k \in {d \in DOMAIN devices : devices[d]["type"] = device_type} |-> devices[k]]

\* C10 as stated: for every registry and every type filter given,
\* get_devices(filter) returns exactly the records whose type equals the
\* filter; with no filter it returns all records.
C10_AnyFilterSelectsByType ==
    [][\A f \in TypeFilters :
         get_devices_call(f) => view' = (IF f = None THEN devices ELSE OfType(f))]_vars

\* C10 amended: the same for every non-empty filter; with no filter or with
\* an empty one (the filter is truth-tested) get_devices returns all records.
C10_FilterSelectsByType ==
    [][\A f \in TypeFilters :
         get_devices_call(f) =>
            view' = (IF f = None \/ f = "" THEN devices ELSE OfType(f))]_vars

\* a call with a filter has just returned one of two registered records
C10_Witness ==
    /\ ret = "dict"
    /\ DOMAIN devices = DeviceIds
    /\ DOMAIN view = {"d1"}
    /\ view["d1"] = devices["d1"]
    /\ devices["d1"]["type"] = "light"
    /\ devices["d2"]["type"] = "lock"

---------------------------------------------------------------------------
(* C11 *)

\* what a call that is a command for device d must do: one publish of an
\* envelope with the command on d's command topic and True when d is
\* registered, the unknown-device error and no publish when it is not
CommandPublished(d, command) ==
    IF d \in DOMAIN devices
    THEN /\ ret' = PyTrue
         /\ Len(published') = Len(published) + 1
         /\ SubSeq(published', 1, Len(published)) = published
         /\ LET sent == published'[Len(published')]
            IN  /\ sent.topic = <<"smarthome", "devices", d, "command">>
                /\ sent.payload.json.command = command
    ELSE ret' = "ValueError" /\ published' = published

\* the params map of the envelope just published
ParamsSent == published'[Len(published')].payload.json.params

\* the same, the envelope carrying exactly params
CommandSent(d, command, params) ==
    /\ CommandPublished(d, command)
    /\ d \in DOMAIN devices => ParamsSent = params

\* the same, the envelope carrying some map of one key
SingleKeySent(d, command) ==
    /\ CommandPublished(d, command)
    /\ d \in DOMAIN devices => Cardinality(DOMAIN ParamsSent) = 1

\* the three operations that take an argument: a map of the one key holding it
C11_SettersPassThrough ==
    \A d \in DeviceIds :
        /\ \A b \in Brightnesses :
              set_brightness(d, b, "t1")
                  => CommandSent(d, "set_brightness", "brightness" :> b)
        /\ \A c \in Colors :
              set_color(d, c, "t1") => CommandSent(d, "set_color", "color" :> c)
        /\ \A t \in Temperatures :
              set_temperature(d, t, "t1")
                  => CommandSent(d, "set_temperature", "temperature" :> t)

\* C11 as stated: each convenience operation on a registered device publishes
\* one envelope on the device's command topic with its literal command name
\* and a single-key params map, the argument passed through unchanged; on an
\* unregistered device it fails like control_device and publishes nothing.
C11_AllSingleKeyParams ==
    [][/\ C11_SettersPassThrough
       /\ \A d \in DeviceIds :
             /\ turn_on(d, "t1") => SingleKeySent(d, "turn_on")
             /\ turn_off(d, "t1") => SingleKeySent(d, "turn_off")
             /\ lock(d, "t1") => SingleKeySent(d, "lock")
             /\ unlock(d, "t1") => SingleKeySent(d, "unlock")]_vars

\* C11 amended: set_brightness, set_color and set_temperature do so, with the
\* single key brightness, color or temperature; turn_on, turn_off, lock and
\* unlock take no argument and publish their command name with an empty
\* params map.
C11_ConvenienceOperations ==
    [][/\ C11_SettersPassThrough
       /\ \A d \in DeviceIds :
             /\ turn_on(d, "t1") => CommandSent(d, "turn_on", EmptyDict)
             /\ turn_off(d, "t1") => CommandSent(d, "turn_off", EmptyDict)
             /\ lock(d, "t1") => CommandSent(d, "lock", EmptyDict)
             /\ unlock(d, "t1") => CommandSent(d, "unlock", EmptyDict)]_vars

\* a brightness outside 0-100 went out unchanged to the registered d1
C11_Witness ==
    /\ ret = PyTrue
    /\ "d1" \in DOMAIN devices
    /\ Len(published) = 1
    /\ published[1].topic = CommandTopic("d1")
    /\ published[1].payload.json.command = "set_brightness"
    /\ published[1].payload.json.params = ("brightness" :> "150")

---------------------------------------------------------------------------
(* C12 *)

\* one publish, on the fixed topic, and success; nothing else of the manager
\* changes
PublishedOn(topic) ==
    /\ ret' = PyTrue
    /\ Len(published') = Len(published) + 1
    /\ SubSeq(published', 1, Len(published)) = published
    /\ published'[Len(published')].topic = topic
    /\ UNCHANGED <<devices, callbacks, subscribed, session>>

\* the document of the publish just made
DocumentSent == published'[Len(published')].payload.json

\* below the bound of the model, each of the four can be called in the state
\* as it is: no message has to arrive first
C12_AlwaysCallable ==
    Len(published) < MaxPublished =>
        /\ \A n \in SceneNames, ds \in DeviceStatesArgs : ENABLED create_scene(n, ds, "t1")
        /\ \A n \in SceneNames : ENABLED activate_scene(n, "t1")
        /\ \A ds \in DeviceStatesArgs :
              ENABLED create_automation("dusk", "sunset", <<>>, <<ds>>, "t1")
        /\ \A d \in EnergyArgs : ENABLED get_energy_usage(d, "t1")

\* C12: create_scene, activate_scene, create_automation and get_energy_usage
\* each make one publish on their fixed topic and return True in every state,
\* the device ids they mention registered or not, and wait for no inbound
\* message.
C12_FireAndForget ==
    /\ []C12_AlwaysCallable
    /\ [][/\ \A n \in SceneNames, ds \in DeviceStatesArgs :
              create_scene(n, ds, "t1") =>
                 /\ PublishedOn(<<"smarthome", "scenes", "create">>)
                 /\ DocumentSent.name = n /\ DocumentSent.devices = ds
          /\ \A n \in SceneNames :
              activate_scene(n, "t1") =>
                 /\ PublishedOn(<<"smarthome", "scenes", "activate">>)
                 /\ DocumentSent.name = n
          /\ \A ds \in DeviceStatesArgs :
              create_automation("dusk", "sunset", <<>>, <<ds>>, "t1") =>
                 /\ PublishedOn(<<"smarthome", "automations", "create">>)
                 /\ DocumentSent.name = "dusk" /\ DocumentSent.actions = <<ds>>
          /\ \A d \in EnergyArgs :
              get_energy_usage(d, "t1") =>
                 /\ PublishedOn(<<"smarthome", "energy", "query">>)
                 /\ DocumentSent.device_id = d]_vars

\* an energy query for a device that is not registered went out from a manager
\* that never connected and holds no record
C12_Witness ==
    /\ ret = PyTrue
    /\ devices = EmptyDict
    /\ session = "new"
    /\ Len(published) = 1
    /\ published[1].topic = <<"smarthome", "energy", "query">>
    /\ published[1].payload.json.device_id = "d9"

---------------------------------------------------------------------------
(* C13 *)

\* the parts of a record the state handler writes, and those the status
\* handler writes
StateHandlerKeys == {"state", "last_update"}

\* record r as far as keys goes
Only(r, keys) == [k \in DOMAIN r \cap keys |-> r[k]]

\* no built-in handler but the discovery handler ran: the records there were
\* are as they were, and a new record is as discovery makes it
DiscoveryOnly ==
    /\ \A d \in DOMAIN devices : d \in DOMAIN devices' /\ devices'[d] = devices[d]
    /\ \A d \in DOMAIN devices' \ DOMAIN devices :
          /\ devices'[d]["state"] = EmptyDict
          /\ devices'[d]["online"] = PyTrue
          /\ DOMAIN devices'[d] \cap {"last_update", "battery", "signal_strength"} = {}

\* no built-in handler but the state handler ran
StateOnly ==
    /\ DOMAIN devices' = DOMAIN devices
    /\ subscribed' = subscribed
    /\ \A d \in DOMAIN devices :
          Only(devices'[d], DOMAIN devices'[d] \ StateHandlerKeys)
              = Only(devices[d], DOMAIN devices[d] \ StateHandlerKeys)

\* no built-in handler but the status handler ran
StatusOnly ==
    /\ DOMAIN devices' = DOMAIN devices
    /\ subscribed' = subscribed
    /\ \A d \in DOMAIN devices :
          Only(devices'[d], DOMAIN devices'[d] \ StatusKeys)
              = Only(devices[d], DOMAIN devices[d] \ StatusKeys)

\* C13: classification is first match in the order discovery prefix, state
\* suffix, status suffix: a message whose topic begins with
\* smarthome/discovery/ is handled by the discovery handler alone, also when
\* the topic ends with /state or /status, and one built-in handler or none
\* runs per message.
C13_FirstMatchWins ==
    [][\A a \in ClassifyArrivals :
         (Delivered(a) /\ ParsedObject(a)) =>
            IF IsDiscoveryTopic(a.topic) THEN DiscoveryOnly
            ELSE IF EndsWith(a.topic, "state") THEN StateOnly
            ELSE IF EndsWith(a.topic, "status") THEN StatusOnly
            ELSE devices' = devices /\ subscribed' = subscribed]_vars

\* d2 was registered by a message on smarthome/discovery/d1/state or /status,
\* and the record of d1, the third segment of those topics, holds nothing of
\* that message
C13_Witness ==
    /\ DOMAIN devices = DeviceIds
    /\ devices["d2"]["name"] = "Gate"
    /\ devices["d2"]["state"] = EmptyDict
    /\ devices["d2"]["online"] = PyTrue
    /\ devices["d1"]["discovered_at"] = "t1" /\ devices["d2"]["discovered_at"] = "t2"
    /\ devices["d1"]["state"] = ("on" :> PyTrue)
    /\ "battery" \notin DOMAIN devices["d1"]["state"]
    /\ devices["d1"]["online"] = PyTrue

---------------------------------------------------------------------------
(* C14 *)

\* C14: state and status updates that arrive before the discovery of their
\* device are lost, not queued: when an update for id d found no record and
\* the first discovery event for d comes after it, the record of d right after
\* that discovery has an empty state, online = True, and no last_update,
\* battery or signal_strength.
C14_EarlyUpdatesLost ==
    [][\A a \in InboundArrivals :
         (/\ Delivered(a)
          /\ DiscoveryEvent(a)
          /\ CarriedId(a) \in lost
          /\ CarriedId(a) \notin DOMAIN firstSeen) =>
            LET d == CarriedId(a)
            IN  /\ d \in DOMAIN devices'
                /\ devices'[d]["state"] = EmptyDict
                /\ devices'[d]["online"] = PyTrue
                /\ DOMAIN devices'[d] \cap {"last_update", "battery", "signal_strength"} = {}]_vars

\* updates for d1 and for d2 found no record, d1 has just been discovered, and
\* its record shows nothing of the update
C14_Witness ==
    /\ lost = {"d1", "d2"}
    /\ DOMAIN devices = {"d1"}
    /\ devices["d1"]["state"] = EmptyDict
    /\ devices["d1"]["online"] = PyTrue
    /\ "last_update" \notin DOMAIN devices["d1"]
    /\ "battery" \notin DOMAIN devices["d1"]

---------------------------------------------------------------------------
(* C17 *)

TimestampKeys == {"discovered_at", "last_update"}

\* a registry with the timestamps left out of its records
Timeless(devs) ==
    [d \in DOMAIN devs |-> Only(devs[d], DOMAIN devs[d] \ TimestampKeys)]

\* C17: duplicate delivery is safe for the registry: when a discovery, state
\* or status message has just been processed, processing the same message
\* once more, at whatever time, leaves the registry (timestamps aside) and
\* the set of issued subscriptions as the first processing left them.
C17_DuplicateDeliverySafe ==
    [][\A a \in InboundArrivals :
         Delivered(a) =>
            \A again \in Times :
                \A twice \in {on_message_result(devices', callbacks', a.topic, a.raw, again)} :
                    /\ Timeless(twice.devices) = Timeless(devices')
                    /\ BagToSet(subscribed' (+) twice.subscribe) = BagToSet(subscribed')]_vars

\* d1 and d2 are registered, and d1 carries a merged state and a status: a
\* registry on which a second processing of a message would show
C17_Witness ==
    /\ DOMAIN devices = DeviceIds
    /\ devices["d1"]["capabilities"] # <<>>
    /\ DOMAIN devices["d1"]["state"] = {"on", "level"}
    /\ {"last_update", "battery"} \subseteq DOMAIN devices["d1"]
    /\ devices["d1"]["last_update"] = "t2"
    /\ devices["d1"]["battery"] = "42"
    /\ error = ""
    /\ session = "connected"

---------------------------------------------------------------------------
(* C19 *)

\* C19: a state or status message addressed to device d changes the record of
\* d alone: no record is added or removed, every other record is as it was,
\* and a state message leaves online, battery and signal_strength of d as
\* they were.
C19_OnlyTheAddressedRecord ==
    [][\A a \in InboundArrivals :
         (Delivered(a) /\ (StateEvent(a) \/ StatusEvent(a))) =>
            LET d == a.topic[3]
            IN  /\ DOMAIN devices' = DOMAIN devices
                /\ \A e \in DOMAIN devices \ {d} : devices'[e] = devices[e]
                /\ (StateEvent(a) /\ d \in DOMAIN devices) =>
                       Only(devices'[d], StatusKeys) = Only(devices[d], StatusKeys)]_vars

\* d1 is offline by a status message and carries a state merged by a state
\* message, and the record of d2 is as discovery made it
C19_Witness ==
    /\ DOMAIN devices = DeviceIds
    /\ devices["d1"]["online"] = PyFalse
    /\ devices["d1"]["state"] = ("on" :> PyTrue)
    /\ {"last_update", "signal_strength"} \subseteq DOMAIN devices["d1"]
    /\ devices["d1"]["signal_strength"] = "-60"
    /\ devices["d2"]["state"] = EmptyDict
    /\ devices["d2"]["online"] = PyTrue
    /\ "last_update" \notin DOMAIN devices["d2"]

---------------------------------------------------------------------------
(* C15 *)

\* the dispatch of a reaches a callback that raises: the payload parses, the
\* built-in handler raises nothing, and a raising callback is registered for
\* the topic
ReachesRaisingCallback(a) ==
    /\ a.raw.wellformed
    /\ classify(devices, a.topic, a.raw.value, a.now).raised = ""
    /\ \E i \in 1..Len(RegisteredFor(a.topic)) : RegisteredFor(a.topic)[i] \in RaisingCallbacks

\* C15 as stated: when a callback registered for a topic raises an error
\* during the dispatch of a message on that topic, the manager does not catch
\* it: the error leaves the message handler and reaches the transport.
C15_CallbackErrorEscapes ==
    [][\A a \in DispatchArrivals :
         (Delivered(a) /\ ReachesRaisingCallback(a))
             => ret' = "CallbackError" /\ error' = ""]_vars

\* C15 amended: the manager catches it: the error is logged by the message
\* handler, which ends normally, and nothing reaches the transport.
C15_CallbackErrorCaught ==
    [][\A a \in DispatchArrivals :
         (Delivered(a) /\ ReachesRaisingCallback(a)) =>
            /\ error' = "CallbackError"
            /\ ret' = ""
            /\ invoked' # <<>>
            /\ invoked'[Len(invoked')].callback \in RaisingCallbacks]_vars

\* a state message for d1 was merged, the first callback of its topic ran, the
\* second one raised, and the error was logged
C15_Witness ==
    /\ error = "CallbackError"
    /\ ret = ""
    /\ CallbacksOf(invoked) = <<"cb_a", "cb_raise">>
    /\ invoked[1].topic = StateTopic("d1")
    /\ "d1" \in DOMAIN devices
    /\ devices["d1"]["state"] = ("on" :> PyTrue)

---------------------------------------------------------------------------
(* C16 *)

\* the caller is inside the iteration of get_devices
CallerReading == caller.pc = "L133"

\* a handler is between its test of the registry and its last write to it
HandlerMutating == inbound.pc \in {"L97", "L118", "L119", "L125", "L126", "L127"}

\* C16: registry accesses of the two threads exclude each other: in no
\* reachable state is the caller inside the iteration of get_devices while a
\* discovery, state or status handler is between its test and its last
\* write, no membership test of control_device, get_device or step of the
\* iteration is made while a handler is there, and no handler writes while
\* the iteration is under way.
C16_RegistryAccessExclusive ==
    /\ [](~(CallerReading /\ HandlerMutating))
    /\ [][(GetDevice \/ ControlCalled \/ get_devices_next) => ~HandlerMutating]_vars
    /\ [][(discovery_step \/ state_update_step \/ status_step) => ~CallerReading]_vars

---------------------------------------------------------------------------
(* C18 *)

\* C18: under every interleaving of the two threads, each publish made by
\* control_device is for a device id that is in the registry at the moment of
\* the publish: whatever inbound message is handled between the test of line
\* 142 and the publish of line 152, the id tested is still registered.
C18_PublishTargetsRegistered ==
    /\ [](caller.pc = "L152" => caller.sending[1].device_id \in DOMAIN devices)
    /\ [][control_device_publish =>
             \E d \in DOMAIN devices \cap DOMAIN devices' :
                 published'[Len(published')].topic = CommandTopic(d)]_vars

\* a command for d1 has just been published while the status handler was half
\* way through its writes to the record of d1
C18_Witness ==
    /\ ret = PyTrue
    /\ caller.pc = "idle"
    /\ Len(caller.issued) = 1
    /\ caller.issued[1].device_id = "d1"
    /\ published[Len(published)].topic = CommandTopic("d1")
    /\ inbound.pc = "L126"
    /\ inbound.device_id = "d1"

---------------------------------------------------------------------------
(* C20 *)

\* a scene has returned or was ended by an exception
SceneEnded == caller.scene # "" /\ caller.pc = "idle"

\* the commands a scene published are those of its loops over the devices its
\* get_devices calls returned
IssuedToMatched ==
    LET due == SceneCommands(caller.scene, caller.matched)
    IN  /\ Len(caller.issued) = Len(due)
        /\ \A i \in 1..Len(due) :
              /\ caller.issued[i].device_id = due[i].device_id
              /\ caller.issued[i].payload.json.command = due[i].command

\* C20: good_morning_scene, good_night_scene and away_mode never fail with the
\* unknown-device error, also when discovery messages are handled
\* concurrently, and each issues its commands to exactly the devices whose
\* type matched when get_devices was called, and to no other device.
C20_ScenesCommandMatchedDevices ==
    /\ [](caller.scene # "" => ret # "ValueError")
    /\ [](SceneEnded => IssuedToMatched)

=============================================================================
